---- MODULE Spec2Model ----
(***************************************************************************)
(* A model of ctvlib: the BIP-119 template hash (src/src/tmplhash.rs) and  *)
(* the Context type that derives locking scripts, addresses and spending   *)
(* chains from a tree of templates (src/src/ctv.rs).                       *)
(*                                                                         *)
(* Byte strings are sequences of chunks.  A chunk is either one byte,      *)
(* <<"u8", n>>, or an opaque fixed-size block produced by a primitive of   *)
(* the bitcoin / sha2 crates (a SHA-256 digest, a witness program, a       *)
(* taproot key).  A block is kept as the term that produced it, so the     *)
(* hash functions are collision free and their preimages can be inspected. *)
(***************************************************************************)
EXTENDS Integers, Sequences, FiniteSets, TLC

VARIABLES ctx, tx, op, args, result

vars == <<ctx, tx, op, args, result>>

(***************************************************************************)
(* Bounds of the model.                                                    *)
(***************************************************************************)
\* inputs of a raw transaction given to template_hash
MaxInputs == 2
\* outputs of a raw transaction given to template_hash
MaxTxOutputs == 2
\* nesting depth of a tree of templates
MaxDepth == 2
\* length of a template's sequences list
MaxSeqs == 2

(***************************************************************************)
(* Results and options.                                                    *)
(***************************************************************************)
Ok(v) == [ok |-> TRUE, val |-> v]

Err(e) == [ok |-> FALSE, err |-> e]

None == [some |-> FALSE]

Some(v) == [some |-> TRUE, val |-> v]

(***************************************************************************)
(* Consensus encoding (bitcoin::consensus::Encodable).                     *)
(***************************************************************************)
U8(n) == <<"u8", n>>

\* the size in bytes of one chunk: a byte, the parity byte of a control block,
\* a 20-byte key hash, or a 32-byte digest or key
ChunkLen(c) ==
  IF c[1] \in {"u8", "cb"} THEN 1
  ELSE IF c[1] = "wpkh" THEN 20
  ELSE 32

RECURSIVE ByteLen(_)
ByteLen(bytes) ==
  IF bytes = <<>> THEN 0 ELSE ChunkLen(Head(bytes)) + ByteLen(Tail(bytes))

\* the w low bytes of n, least significant first
RECURSIVE LE(_, _)
LE(n, w) ==
  IF w = 0 THEN <<>> ELSE <<U8(n % 256)>> \o LE(n \div 256, w - 1)

\* a u32 that may exceed 2^31 - 1 (a Sequence, a vout) is kept as
\* <<high 16 bits, low 16 bits>>
U32(hi, lo) == <<hi, lo>>

EncodeU32(n) == LE(n, 4)

EncodeWideU32(u) == LE(u[2], 2) \o LE(u[1], 2)

EncodeU64(n) == LE(n, 8)

VarInt(n) ==
  IF n < 253 THEN <<U8(n)>>
  ELSE IF n <= 65535 THEN <<U8(253)>> \o LE(n, 2)
  ELSE <<U8(254)>> \o LE(n, 4)

\* a script is encoded as its length followed by its bytes
EncodeScript(script) == VarInt(ByteLen(script)) \o script

\* a transaction output is its value followed by its script
EncodeTxOut(txout) == EncodeU64(txout.value) \o EncodeScript(txout.script_pubkey)

(***************************************************************************)
(* tmplhash.rs: mod util                                                   *)
(***************************************************************************)
sha256(data) == <<<<"sha256", data>>>>

RECURSIVE FoldScriptSigs(_)
FoldScriptSigs(input) ==
  IF input = <<>> THEN <<>>
  ELSE EncodeScript(Head(input).script_sig) \o FoldScriptSigs(Tail(input))

\* scriptsigs without its early return
scriptsigs_Always(t) == Some(sha256(FoldScriptSigs(t.input)))

scriptsigs(t) ==
  IF \A i \in DOMAIN t.input : t.input[i].script_sig = <<>>
  THEN None
  ELSE Some(sha256(FoldScriptSigs(t.input)))

RECURSIVE FoldSequences(_)
FoldSequences(input) ==
  IF input = <<>> THEN <<>>
  ELSE EncodeWideU32(Head(input).sequence) \o FoldSequences(Tail(input))

sequences(t) == sha256(FoldSequences(t.input))

RECURSIVE FoldOutputs(_)
FoldOutputs(output) ==
  IF output = <<>> THEN <<>>
  ELSE EncodeTxOut(Head(output)) \o FoldOutputs(Tail(output))

outputs(t) == sha256(FoldOutputs(t.output))

\* util::ctv: the buffer after each write, then its digest
BufVersion(t) == EncodeU32(t.version)

BufLockTime(t) == BufVersion(t) \o EncodeU32(t.lock_time)

BufScriptSigs(t) ==
  IF scriptsigs(t).some THEN BufLockTime(t) \o scriptsigs(t).val ELSE BufLockTime(t)

BufInputCount(t) == BufScriptSigs(t) \o EncodeU32(Len(t.input))

\* the sequences hash written before the input count
BufSequences_BeforeCount(t) ==
  BufScriptSigs(t) \o sequences(t) \o EncodeU32(Len(t.input))

BufSequences(t) == BufInputCount(t) \o sequences(t)

BufOutputCount(t) == BufSequences(t) \o EncodeU32(Len(t.output))

BufOutputs(t) == BufOutputCount(t) \o outputs(t)

BufInputIndex(t, input) == BufOutputs(t) \o EncodeU32(input)

ctv(t, input) == sha256(BufInputIndex(t, input))

\* impl TemplateHash for Transaction
template_hash(t, inp_index) == Ok(ctv(t, inp_index))

(***************************************************************************)
(* Primitives of the bitcoin crate used by ctv.rs.                         *)
(***************************************************************************)
OP_NOP4 == 179

OP_RETURN == 106

OP_PUSHNUM_1 == 81

OP_0 == 0

TAPROOT_LEAF_TAPSCRIPT == 192

\* PushBytesBuf::extend_from_slice refuses more than 0xFFFFFFFF bytes
PushBytesTooLong(data) == ByteLen(data) \div 65536 >= 65536

\* script::Builder::push_slice
PushSlice(data) ==
  LET n == ByteLen(data) IN
  IF n < 76 THEN <<U8(n)>> \o data
  ELSE IF n < 256 THEN <<U8(76), U8(n)>> \o data
  ELSE IF n < 65536 THEN <<U8(77)>> \o LE(n, 2) \o data
  ELSE <<U8(78)>> \o LE(n, 4) \o data

\* ScriptBuf::new_op_return
NewOpReturn(data) == <<U8(OP_RETURN)>> \o PushSlice(data)

\* Address::p2wsh: witness version 0, program = SHA-256 of the script
P2wsh(script, network) ==
  [kind |-> "p2wsh", program |-> sha256(script), network |-> network]

\* TapLeafHash of a script at leaf version 0xc0: the merkle root of a
\* taproot tree with that single leaf
TapLeafHash(script) == <<"tapleaf", TAPROOT_LEAF_TAPSCRIPT, script>>

\* Address::p2tr: witness version 1, program = internal key tweaked by the root
P2tr(internal_key, merkle_root, network) ==
  [kind |-> "p2tr",
   program |-> <<<<"taptweak", internal_key, merkle_root>>>>,
   network |-> network]

\* Address::script_pubkey
ScriptPubkey(a) ==
  IF a.kind = "p2tr" THEN <<U8(OP_PUSHNUM_1)>> \o PushSlice(a.program)
  ELSE IF a.kind = "p2pkh"
  THEN <<U8(118), U8(169)>> \o PushSlice(a.program) \o <<U8(136), U8(172)>>
  ELSE <<U8(OP_0)>> \o PushSlice(a.program)

\* Address::<NetworkUnchecked>::is_valid_for_network
IsValidForNetwork(a, network) ==
  IF a.network = network THEN TRUE
  ELSE IF a.network = "Bitcoin" \/ network = "Bitcoin" THEN FALSE
  ELSE IF (a.network = "Regtest" \/ network = "Regtest") /\ a.kind # "p2pkh" THEN FALSE
  ELSE TRUE

\* Address::<NetworkUnchecked>::require_network; a checked address is
\* the same payload and network
RequireNetwork(a, network) ==
  IF IsValidForNetwork(a, network) THEN Ok(a)
  ELSE Err(<<"BitcoinAddress", network, a.network, a>>)

\* Transaction::txid: the hash of the transaction without its witnesses
Txid(t) ==
  <<"txid", t.version,
    [i \in DOMAIN t.input |->
       [previous_output |-> t.input[i].previous_output,
        script_sig |-> t.input[i].script_sig,
        sequence |-> t.input[i].sequence]],
    t.output, t.lock_time>>

\* OutPoint::null(), the previous_output of TxIn::default()
NullOutPoint == [txid |-> <<"txid", "zero">>, vout |-> U32(65535, 65535)]

\* the ? operator: the error of r, or f applied to its value
AndThen(r, f(_)) == IF r.ok THEN f(r.val) ELSE r

\* iter.collect::<Result<Vec<_>, _>>(): the first error, or all the values
RECURSIVE Collect(_)
Collect(rs) ==
  IF rs = <<>> THEN Ok(<<>>)
  ELSE AndThen(Head(rs), LAMBDA v :
         AndThen(Collect(Tail(rs)), LAMBDA rest : Ok(<<v>> \o rest)))

\* TaprootSpendInfo::control_block(..).serialize() for a one-leaf tree:
\* leaf version with the output key's parity, then the internal key
ControlBlock(tsi, script) ==
  IF script # tsi.script THEN None
  ELSE Some(<<<<"cb", tsi.internal_key, tsi.merkle_root>>, tsi.internal_key>>)

\* Option::ok_or_else
OkOrElse(o, e) == IF o.some THEN Ok(o.val) ELSE Err(e)

(***************************************************************************)
(* ctv.rs: Context and Output                                              *)
(***************************************************************************)
RECURSIVE Context_ctv(_), Context_locking_script(_), Context_address(_),
          Output_as_txout(_, _), Context_spending_tx(_, _, _)

\* as_txout with assume_checked() in place of require_network(network)
Output_as_txout_AssumeChecked(o, network) ==
  IF o.kind = "Address"
  THEN Ok([value |-> o.amount, script_pubkey |-> ScriptPubkey(o.address)])
  ELSE IF o.kind = "Data"
  THEN IF PushBytesTooLong(o.data) THEN Err(<<"BitcoinStackItemSize">>)
       ELSE Ok([value |-> 0, script_pubkey |-> NewOpReturn(o.data)])
  ELSE AndThen(Context_address(o.tree), LAMBDA a :
         Ok([value |-> o.amount, script_pubkey |-> ScriptPubkey(a)]))

Output_as_txout(o, network) ==
  IF o.kind = "Address"
  THEN AndThen(RequireNetwork(o.address, network), LAMBDA a :
         Ok([value |-> o.amount, script_pubkey |-> ScriptPubkey(a)]))
  ELSE IF o.kind = "Data"
  THEN IF PushBytesTooLong(o.data) THEN Err(<<"BitcoinStackItemSize">>)
       ELSE Ok([value |-> 0, script_pubkey |-> NewOpReturn(o.data)])
  ELSE AndThen(Context_address(o.tree), LAMBDA a :
         Ok([value |-> o.amount, script_pubkey |-> ScriptPubkey(a)]))

Context_txouts(c) ==
  Collect([i \in DOMAIN c.fields.outputs |->
             Output_as_txout(c.fields.outputs[i], c.network)])

\* the template transaction given the inputs and the rendered outputs
TemplateTransaction(c, input, output) ==
  [version |-> c.fields.version,
   lock_time |-> c.fields.locktime,
   input |-> [i \in DOMAIN input |->
                [previous_output |-> NullOutPoint,
                 script_sig |-> <<>>,
                 sequence |-> input[i],
                 witness |-> <<>>]],
   output |-> output]

\* as_tx keeping the outputs that render and dropping the others
Context_as_tx_SkipErrors(c) ==
  LET rendered == [i \in DOMAIN c.fields.outputs |->
                     Output_as_txout(c.fields.outputs[i], c.network)]
      kept == SelectSeq(rendered, LAMBDA r : r.ok)
  IN Ok(TemplateTransaction(c, c.fields.sequences, [i \in DOMAIN kept |-> kept[i].val]))

\* as_tx with the single input spending_tx builds
Context_as_tx_FirstSequence(c) ==
  AndThen(Collect([i \in DOMAIN c.fields.outputs |->
                     Output_as_txout(c.fields.outputs[i], c.network)]),
          LAMBDA output :
            Ok(TemplateTransaction(
                 c,
                 IF c.fields.sequences = <<>> THEN <<>> ELSE <<Head(c.fields.sequences)>>,
                 output)))

Context_as_tx(c) ==
  AndThen(Collect([i \in DOMAIN c.fields.outputs |->
                     Output_as_txout(c.fields.outputs[i], c.network)]),
          LAMBDA output : Ok(TemplateTransaction(c, c.fields.sequences, output)))

Context_ctv(c) ==
  AndThen(Context_as_tx(c), LAMBDA t : template_hash(t, c.fields.input_idx))

Context_locking_script(c) ==
  AndThen(Context_ctv(c), LAMBDA tmplhash :
    IF PushBytesTooLong(tmplhash) THEN Err(<<"BitcoinStackItemSize">>)
    ELSE Ok(PushSlice(tmplhash) \o <<U8(OP_NOP4)>>))

Context_taproot_spend_info(c, internal_key) ==
  AndThen(Context_locking_script(c), LAMBDA script :
    Ok([internal_key |-> internal_key,
        merkle_root |-> TapLeafHash(script),
        script |-> script]))

\* address paying to the witness script hash whatever the tx_type
Context_address_AlwaysSegwit(c) ==
  AndThen(Context_locking_script(c), LAMBDA locking_script :
    Ok(P2wsh(locking_script, c.network)))

Context_address(c) ==
  AndThen(Context_locking_script(c), LAMBDA locking_script :
    IF c.tx_type.kind = "Segwit" THEN Ok(P2wsh(locking_script, c.network))
    ELSE AndThen(Context_taproot_spend_info(c, c.tx_type.internal_key), LAMBDA tsi :
           Ok(P2tr(c.tx_type.internal_key, tsi.merkle_root, c.network))))

\* witness with the control block pushed before the script
Context_witness_ControlBlockFirst(c) ==
  AndThen(Context_locking_script(c), LAMBDA script :
    IF c.tx_type.kind = "Segwit" THEN Ok(<<script>>)
    ELSE AndThen(Context_taproot_spend_info(c, c.tx_type.internal_key), LAMBDA tsi :
           AndThen(OkOrElse(ControlBlock(tsi, script),
                            <<"UnknownError", "Taproot construction error">>),
                   LAMBDA cb : Ok(<<cb, script>>))))

Context_witness(c) ==
  AndThen(Context_locking_script(c), LAMBDA script :
    IF c.tx_type.kind = "Segwit" THEN Ok(<<script>>)
    ELSE AndThen(Context_taproot_spend_info(c, c.tx_type.internal_key), LAMBDA tsi :
           AndThen(OkOrElse(ControlBlock(tsi, script),
                            <<"UnknownError", "Taproot construction error">>),
                   LAMBDA cb : Ok(<<script, cb>>))))

\* the transaction spending_tx builds once its witness and outputs are known
SpendingTransaction(c, txid, vout, witness, output) ==
  [version |-> c.fields.version,
   lock_time |-> c.fields.locktime,
   input |-> <<[previous_output |-> [txid |-> txid, vout |-> vout],
                script_sig |-> <<>>,
                sequence |-> Head(c.fields.sequences),
                witness |-> witness]>>,
   output |-> output]

\* the chain continued from the outpoint this transaction spends
SpendingTxRest_ParentTxid(c, t) ==
  IF c.fields.outputs # <<>> /\ Head(c.fields.outputs).kind = "Tree"
  THEN AndThen(Context_spending_tx(Head(c.fields.outputs).tree,
                                   t.input[1].previous_output.txid, U32(0, 0)),
               LAMBDA rest : Ok(<<t>> \o rest))
  ELSE Ok(<<t>>)

\* the chain cut short where a nested template fails
SpendingTxRest_DropError(c, t) ==
  IF c.fields.outputs # <<>> /\ Head(c.fields.outputs).kind = "Tree"
  THEN LET rest == Context_spending_tx(Head(c.fields.outputs).tree, Txid(t), U32(0, 0))
       IN IF rest.ok THEN Ok(<<t>> \o rest.val) ELSE Ok(<<t>>)
  ELSE Ok(<<t>>)

\* the chain continued through the first Tree output, wherever it is
SpendingTxRest_AnyTree(c, t) ==
  LET trees == SelectSeq(c.fields.outputs, LAMBDA o : o.kind = "Tree") IN
  IF trees # <<>>
  THEN AndThen(Context_spending_tx(Head(trees).tree, Txid(t), U32(0, 0)),
               LAMBDA rest : Ok(<<t>> \o rest))
  ELSE Ok(<<t>>)

\* the transactions after the first: those of a Tree in the first output
SpendingTxRest(c, t) ==
  IF c.fields.outputs # <<>> /\ Head(c.fields.outputs).kind = "Tree"
  THEN AndThen(Context_spending_tx(Head(c.fields.outputs).tree, Txid(t), U32(0, 0)),
               LAMBDA rest : Ok(<<t>> \o rest))
  ELSE Ok(<<t>>)

Context_spending_tx(c, txid, vout) ==
  IF c.fields.sequences = <<>> THEN Err(<<"MissingSequence">>)
  ELSE AndThen(Context_witness(c), LAMBDA witness :
         AndThen(Context_txouts(c), LAMBDA output :
           SpendingTxRest(c, SpendingTransaction(c, txid, vout, witness, output))))

(***************************************************************************)
(* The inputs the operations are applied to.                               *)
(***************************************************************************)
Networks == {"Bitcoin", "Testnet", "Signet"}

SEQUENCE_MAX == U32(65535, 65535)

SEQUENCE_ZERO == U32(0, 0)

KeyA == <<"xonly", "a">>

Segwit == [kind |-> "Segwit"]

Taproot(internal_key) == [kind |-> "Taproot", internal_key |-> internal_key]

\* a pay-to-witness-pubkey-hash address as parsed from its string
P2wpkh(id, network) ==
  [kind |-> "p2wpkh", program |-> <<<<"wpkh", id>>>>, network |-> network]

AddressOutput(address, amount) ==
  [kind |-> "Address", address |-> address, amount |-> amount]

DataOutput(data) == [kind |-> "Data", data |-> data]

TreeOutput(tree, amount) == [kind |-> "Tree", tree |-> tree, amount |-> amount]

ToTestnet == AddressOutput(P2wpkh("t", "Testnet"), 1000)

ToMainnet == AddressOutput(P2wpkh("m", "Bitcoin"), 2000)

SomeData == DataOutput(<<U8(104), U8(105)>>)

\* sequences lists of every length up to MaxSeqs
SeqList(n) == [i \in 1..n |-> IF i % 2 = 1 THEN SEQUENCE_MAX ELSE SEQUENCE_ZERO]

MkContext(network, tx_type, seqs, outs, input_idx) ==
  [network |-> network,
   tx_type |-> tx_type,
   fields |-> [version |-> 2, locktime |-> 0, sequences |-> seqs,
               outputs |-> outs, input_idx |-> input_idx]]

\* what a template is apart from its outputs: the spec's example
\* (version 2, locktime 0, one sequence 0xFFFFFFFF, input_idx 0, segwit)
\* and every template differing from it in one field
Base(outs) == MkContext("Testnet", Segwit, SeqList(1), outs, 0)

Shapes(outs) ==
  {Base(outs)}
  \cup {[Base(outs) EXCEPT !.network = n] : n \in Networks}
  \cup {[Base(outs) EXCEPT !.tx_type = Taproot(KeyA)]}
  \cup {[Base(outs) EXCEPT !.fields.sequences = SeqList(n)] : n \in 0..MaxSeqs}
  \cup {[Base(outs) EXCEPT !.fields.input_idx = 1]}

\* output lists without a Tree
LeafOutputs == {<<>>, <<SomeData>>, <<ToTestnet>>, <<ToMainnet>>, <<SomeData, ToTestnet>>}

\* output lists holding the nested template c: as the first of two Trees,
\* and twice after a first output that is no Tree
TreeOutputs(c) ==
  {<<TreeOutput(c, 5000), TreeOutput(c, 700)>>,
   <<SomeData, TreeOutput(c, 5000), TreeOutput(c, 700)>>}

RECURSIVE Contexts(_)
Contexts(depth) ==
  IF depth = 0 THEN {}
  ELSE LET nested == Contexts(depth - 1) IN
       UNION {Shapes(outs) : outs \in LeafOutputs}
       \cup UNION {Shapes(outs) : outs \in UNION {TreeOutputs(c) : c \in nested}}

\* the outpoints a spending chain is asked to start from
TxidA == <<"txid", "a">>

TxidB == <<"txid", "b">>

OutPoints == {<<TxidA, U32(0, 0)>>, <<TxidB, U32(0, 1)>>}

NoContext == MkContext("Bitcoin", Segwit, <<>>, <<>>, 0)

NoTx == [version |-> 0, lock_time |-> 0, input |-> <<>>, output |-> <<>>]

NoResult == Err(<<"none">>)

(***************************************************************************)
(* The operations of Context, applied to a template.  Every operation      *)
(* takes &self and leaves the template as it is, so what a call returns    *)
(* does not depend on the calls made before it: a behaviour is one         *)
(* template and one call on it.                                            *)
(***************************************************************************)
Init ==
  /\ ctx \in Contexts(MaxDepth)
  /\ tx = NoTx
  /\ op = "new"
  /\ args = <<>>
  /\ result = NoResult

CallCtv ==
  /\ op = "new"
  /\ op' = "ctv"
  /\ args' = <<>>
  /\ result' = Context_ctv(ctx)
  /\ UNCHANGED <<ctx, tx>>

CallLockingScript ==
  /\ op = "new"
  /\ op' = "locking_script"
  /\ args' = <<>>
  /\ result' = Context_locking_script(ctx)
  /\ UNCHANGED <<ctx, tx>>

CallAddress ==
  /\ op = "new"
  /\ op' = "address"
  /\ args' = <<>>
  /\ result' = Context_address(ctx)
  /\ UNCHANGED <<ctx, tx>>

CallSpendingTx ==
  \E o \in OutPoints :
    /\ op = "new"
    /\ op' = "spending_tx"
    /\ args' = o
    /\ result' = Context_spending_tx(ctx, o[1], o[2])
    /\ UNCHANGED <<ctx, tx>>

CallAsTxout ==
  \E i \in DOMAIN ctx.fields.outputs, network \in Networks :
    /\ op = "new"
    /\ op' = "as_txout"
    /\ args' = <<i, network>>
    /\ result' = Output_as_txout(ctx.fields.outputs[i], network)
    /\ UNCHANGED <<ctx, tx>>

Next ==
  \/ CallCtv
  \/ CallLockingScript
  \/ CallAddress
  \/ CallSpendingTx
  \/ CallAsTxout

Spec == Init /\ [][Next]_vars

(***************************************************************************)
(* template_hash applied to raw transactions.                              *)
(***************************************************************************)
\* inputs: spent outpoint and witness vary together, scriptSig and
\* sequence vary freely
TxIns ==
  {[previous_output |-> pw[1], script_sig |-> ss, sequence |-> sq, witness |-> pw[2]] :
     pw \in {<<NullOutPoint, <<>>>>,
             <<[txid |-> TxidA, vout |-> U32(0, 1)], <<<<U8(48), U8(1)>>>>>>},
     ss \in {<<>>, <<U8(OP_PUSHNUM_1)>>},
     sq \in {SEQUENCE_MAX, SEQUENCE_ZERO}}

TxOuts ==
  {[value |-> 1000, script_pubkey |-> ScriptPubkey(P2wpkh("t", "Testnet"))],
   [value |-> 0, script_pubkey |-> NewOpReturn(<<U8(104), U8(105)>>)]}

\* the sequences over S of length at most n
ListsUpTo(S, n) == UNION {[1..k -> S] : k \in 0..n}

Transactions ==
  {[version |-> vl[1], lock_time |-> vl[2], input |-> input, output |-> output] :
     vl \in {<<1, 0>>, <<2, 0>>, <<2, 500>>},
     input \in ListsUpTo(TxIns, MaxInputs),
     output \in ListsUpTo(TxOuts, MaxTxOutputs)}

InitHash ==
  /\ tx \in Transactions
  /\ ctx = NoContext
  /\ op = "new"
  /\ args = <<>>
  /\ result = NoResult

CallTemplateHash ==
  \E inp_index \in 0..MaxInputs :
    /\ op = "new"
    /\ op' = "template_hash"
    /\ args' = <<inp_index>>
    /\ result' = template_hash(tx, inp_index)
    /\ UNCHANGED <<ctx, tx>>

NextHash == CallTemplateHash

SpecHash == InitHash /\ [][NextHash]_vars

(***************************************************************************)
(* Reading a digest: its preimage, and a field of a byte string.           *)
(***************************************************************************)
Preimage(digest) == digest[1][2]

RECURSIVE SkipBytes(_, _)
SkipBytes(bytes, n) ==
  IF n <= 0 \/ bytes = <<>> THEN bytes
  ELSE SkipBytes(Tail(bytes), n - ChunkLen(Head(bytes)))

RECURSIVE TakeBytes(_, _)
TakeBytes(bytes, n) ==
  IF n <= 0 \/ bytes = <<>> THEN <<>>
  ELSE <<Head(bytes)>> \o TakeBytes(Tail(bytes), n - ChunkLen(Head(bytes)))

\* the n bytes of a byte string that start at offset off
Field(bytes, off, n) == TakeBytes(SkipBytes(bytes, off), n)

RECURSIVE Flatten(_)
Flatten(parts) == IF parts = <<>> THEN <<>> ELSE Head(parts) \o Flatten(Tail(parts))

HasScriptSig(t) == \E i \in DOMAIN t.input : t.input[i].script_sig # <<>>

\* t with every scriptSig emptied
WithoutScriptSigs(t) ==
  [t EXCEPT !.input = [i \in DOMAIN t.input |-> [t.input[i] EXCEPT !.script_sig = <<>>]]]

\* t with every spent outpoint and witness replaced by the default ones
WithoutOutpoints(t) ==
  [t EXCEPT !.input = [i \in DOMAIN t.input |->
     [t.input[i] EXCEPT !.previous_output = NullOutPoint, !.witness = <<>>]]]

(***************************************************************************)
(* C1  template_hash(tx, i) is the SHA-256 of: version (4 bytes LE),       *)
(* locktime (4 bytes), the scriptSig sub-hash when present, the input      *)
(* count (4 bytes LE), the SHA-256 of the sequences in input order, the    *)
(* output count (4 bytes LE), the SHA-256 of the encoded outputs in        *)
(* output order, and i (4 bytes LE); spent outpoints and witnesses do not  *)
(* contribute.                                                             *)
(***************************************************************************)
ExpectedPreimage(t, i) ==
  Flatten(<<
    LE(t.version, 4),
    LE(t.lock_time, 4),
    IF HasScriptSig(t)
    THEN sha256(Flatten([k \in DOMAIN t.input |-> EncodeScript(t.input[k].script_sig)]))
    ELSE <<>>,
    LE(Len(t.input), 4),
    sha256(Flatten([k \in DOMAIN t.input |-> EncodeWideU32(t.input[k].sequence)])),
    LE(Len(t.output), 4),
    sha256(Flatten([k \in DOMAIN t.output |->
             LE(t.output[k].value, 8) \o EncodeScript(t.output[k].script_pubkey)])),
    LE(i, 4) >>)

C1_TemplateHashPreimage ==
  op = "template_hash" =>
    /\ result = Ok(sha256(ExpectedPreimage(tx, args[1])))
    /\ result = template_hash(WithoutOutpoints(tx), args[1])

\* a hash was taken of a transaction with two inputs that spend a real
\* outpoint, carry a witness and a scriptSig, and two outputs
C1_Witness ==
  /\ op = "template_hash"
  /\ Len(tx.input) = 2
  /\ Len(tx.output) = 2
  /\ tx.input[1].sequence # tx.input[2].sequence
  /\ tx.output[1] # tx.output[2]
  /\ tx.input[1].previous_output # NullOutPoint
  /\ tx.input[1].witness # <<>>
  /\ HasScriptSig(tx)
  /\ args[1] = 1

(***************************************************************************)
(* C2  The scriptSig sub-hash is in the preimage if and only if some input *)
(* has a non-empty scriptSig, so a transaction with a non-empty scriptSig  *)
(* and the same transaction with all scriptSigs emptied hash differently   *)
(* at every input index.                                                   *)
(***************************************************************************)
C2_ScriptSigSubHash ==
  op = "template_hash" =>
    LET pre == Preimage(result.val) IN
    /\ HasScriptSig(tx) <=>
         Field(pre, 8, 32) =
           sha256(Flatten([k \in DOMAIN tx.input |-> EncodeScript(tx.input[k].script_sig)]))
    /\ ByteLen(pre) = IF HasScriptSig(tx) THEN 116 ELSE 84
    /\ HasScriptSig(tx) =>
         \A i \in 0..MaxInputs :
           template_hash(tx, i) # template_hash(WithoutScriptSigs(tx), i)

C2_Witness ==
  /\ op = "template_hash"
  /\ Len(tx.input) = 2
  /\ tx.input[1].script_sig = <<>>
  /\ tx.input[2].script_sig # <<>>

(***************************************************************************)
(* Reading a tree of templates.                                            *)
(***************************************************************************)
FirstIsTree(c) == c.fields.outputs # <<>> /\ c.fields.outputs[1].kind = "Tree"

\* the templates along the first-output path, root first
RECURSIVE FirstPath(_)
FirstPath(c) ==
  IF FirstIsTree(c) THEN <<c>> \o FirstPath(c.fields.outputs[1].tree) ELSE <<c>>

\* the template and every template nested in it through Tree outputs
RECURSIVE Templates(_)
Templates(c) ==
  {c} \cup UNION {Templates(c.fields.outputs[i].tree) :
                    i \in {j \in DOMAIN c.fields.outputs : c.fields.outputs[j].kind = "Tree"}}

\* the address errors of the Address outputs that do not fit their template
OwnAddressErrors(t) ==
  {Err(<<"BitcoinAddress", t.network, t.fields.outputs[i].address.network,
         t.fields.outputs[i].address>>) :
     i \in {j \in DOMAIN t.fields.outputs :
              /\ t.fields.outputs[j].kind = "Address"
              /\ ~IsValidForNetwork(t.fields.outputs[j].address, t.network)}}

AddressErrors(c) == UNION {OwnAddressErrors(t) : t \in Templates(c)}

MissingSequence == Err(<<"MissingSequence">>)

OneAddressOutput(c) ==
  Len(c.fields.outputs) = 1 /\ c.fields.outputs[1].kind = "Address"

(***************************************************************************)
(* C3  For a template with one Address output, ctv() does not depend on    *)
(* the template's network and address() does.  As claimed (ctv() succeeds  *)
(* on every network and returns one digest) this is C3_AnyNetworkSucceeds, *)
(* which fails: the address is checked against the network.  What holds:   *)
(* ctv() succeeds exactly on the networks the address is valid for, all    *)
(* the calls that succeed return one digest, and the addresses of two      *)
(* different networks differ.                                              *)
(***************************************************************************)
\* C3 as claimed
C3_AnyNetworkSucceeds ==
  (op = "ctv" /\ OneAddressOutput(ctx)) =>
    \A n \in Networks :
      LET other == [ctx EXCEPT !.network = n] IN
      /\ result.ok
      /\ Context_ctv(other) = result
      /\ n # ctx.network => Context_address(other) # Context_address(ctx)

\* C3 as amended: ctv() succeeds exactly where the address is valid, the
\* successful calls agree on the digest, and the addresses differ
C3_NetworkNotCommitted ==
  (op = "ctv" /\ OneAddressOutput(ctx)) =>
    /\ result.ok <=> IsValidForNetwork(ctx.fields.outputs[1].address, ctx.network)
    /\ ~result.ok => result \in AddressErrors(ctx)
    /\ \A n \in Networks :
         LET other == [ctx EXCEPT !.network = n] IN
         /\ (result.ok /\ Context_ctv(other).ok) => Context_ctv(other) = result
         /\ (result.ok /\ Context_ctv(other).ok /\ n # ctx.network) =>
              /\ Context_address(ctx).ok
              /\ Context_address(other).ok
              /\ Context_address(other) # Context_address(ctx)

\* the spec's example on Testnet, which the same template on Signet matches
C3_Witness ==
  /\ op = "ctv"
  /\ OneAddressOutput(ctx)
  /\ ctx.network = "Testnet"
  /\ result.ok
  /\ Context_ctv([ctx EXCEPT !.network = "Signet"]) = result

(***************************************************************************)
(* C4  When the first output is a Tree, a successful spending_tx returns   *)
(* one transaction per template of the first-output path, root first:      *)
(* transaction 1 has one input spending the given outpoint, and every      *)
(* later one has one input spending output 0 of the one before it.         *)
(***************************************************************************)
C4_ChainLinks ==
  (op = "spending_tx" /\ result.ok /\ FirstIsTree(ctx)) =>
    LET chain == result.val
        path == FirstPath(ctx)
    IN /\ Len(chain) = Len(path)
       /\ \A k \in DOMAIN chain :
            /\ Len(chain[k].input) = 1
            /\ chain[k].output = Context_txouts(path[k]).val
            /\ chain[k].input[1].sequence = path[k].fields.sequences[1]
            /\ chain[k].input[1].previous_output =
                 IF k = 1 THEN [txid |-> args[1], vout |-> args[2]]
                 ELSE [txid |-> Txid(chain[k - 1]), vout |-> U32(0, 0)]

C4_Witness ==
  /\ op = "spending_tx"
  /\ result.ok
  /\ FirstIsTree(ctx)
  /\ Len(result.val) = MaxDepth
  /\ args[2] # U32(0, 0)

(***************************************************************************)
(* C5  Every transaction spending_tx returns hashes, at its template's     *)
(* input_idx, to that template's ctv().                                    *)
(***************************************************************************)
C5_ChainSatisfiesTemplates ==
  (op = "spending_tx" /\ result.ok) =>
    \A k \in DOMAIN result.val :
      template_hash(result.val[k], FirstPath(ctx)[k].fields.input_idx)
        = Context_ctv(FirstPath(ctx)[k])

(***************************************************************************)
(* C6  spending_tx fails when input_idx is no index into the inputs of the *)
(* transaction it builds.                                                  *)
(***************************************************************************)
C6_InputIdxChecked ==
  op = "spending_tx" =>
    /\ ctx.fields.input_idx >= 1 => ~result.ok
    /\ result.ok => ctx.fields.input_idx < Len(result.val[1].input)

EmptySequencesOnPath(c) ==
  \E k \in DOMAIN FirstPath(c) : FirstPath(c)[k].fields.sequences = <<>>

(***************************************************************************)
(* C7  An empty sequences list and spending_tx.  As claimed (the root call *)
(* fails with MissingSequence wherever on the first-output path the empty  *)
(* list is) this is C7_AlwaysMissingSequence, which fails: a root that has *)
(* sequences builds its witness, and so renders its whole tree, before it  *)
(* reaches the nested template.  What holds: a template with no sequences  *)
(* gives MissingSequence; a root above it gives no transactions and an     *)
(* error, which is MissingSequence when every address of the tree fits its *)
(* network and the address error otherwise; ctv(), locking_script() and    *)
(* address() fail on such a template only for an address.                  *)
(***************************************************************************)
\* C7 as claimed
C7_AlwaysMissingSequence ==
  /\ (op = "spending_tx" /\ EmptySequencesOnPath(ctx)) => result = MissingSequence
  /\ (op \in {"ctv", "locking_script", "address"} /\ ctx.fields.sequences = <<>>) =>
       result # MissingSequence

\* C7 as amended: no transactions, and MissingSequence unless an address
\* of the root's tree fails first
C7_MissingSequence ==
  /\ (op = "spending_tx" /\ ctx.fields.sequences = <<>>) => result = MissingSequence
  /\ (op = "spending_tx" /\ EmptySequencesOnPath(ctx)) =>
       /\ ~result.ok
       /\ IF ctx.fields.sequences = <<>> \/ AddressErrors(ctx) = {}
          THEN result = MissingSequence
          ELSE result \in AddressErrors(ctx)
  /\ (op \in {"ctv", "locking_script", "address"} /\ ctx.fields.sequences = <<>>) =>
       /\ result.ok <=> AddressErrors(ctx) = {}
       /\ ~result.ok => result \in AddressErrors(ctx)

\* a root with a sequence whose first output is a Tree without one
C7_Witness ==
  /\ op = "spending_tx"
  /\ ctx.fields.sequences # <<>>
  /\ FirstIsTree(ctx)
  /\ ctx.fields.outputs[1].tree.fields.sequences = <<>>
  /\ Context_ctv(ctx).ok
  /\ result = MissingSequence

(***************************************************************************)
(* C8  An Address output that does not fit the network fails to render     *)
(* with an address error, and ctv(), locking_script(), address() and       *)
(* spending_tx() of its template and of every template above it return     *)
(* that error.  As claimed this is C8_AddressErrorEverywhere, which fails  *)
(* for spending_tx: a template without sequences gives MissingSequence     *)
(* before anything is rendered.  What holds is the claim with spending_tx  *)
(* returning the address error when the template it is called on has a     *)
(* sequence, and MissingSequence when it has none.                         *)
(***************************************************************************)
\* rendering one output: an Address that fits, one that does not, a Tree
C8_Rendering ==
  op = "as_txout" =>
    LET o == ctx.fields.outputs[args[1]] IN
    /\ (o.kind = "Address" /\ ~IsValidForNetwork(o.address, args[2])) =>
         result = Err(<<"BitcoinAddress", args[2], o.address.network, o.address>>)
    /\ (o.kind = "Address" /\ IsValidForNetwork(o.address, args[2])) => result.ok
    /\ (o.kind = "Tree" /\ AddressErrors(o.tree) # {}) => result \in AddressErrors(o.tree)

\* C8 as claimed
C8_AddressErrorEverywhere ==
  /\ C8_Rendering
  /\ (op \in {"ctv", "locking_script", "address", "spending_tx"}
        /\ AddressErrors(ctx) # {}) => result \in AddressErrors(ctx)

\* C8 as amended: spending_tx returns the address error when the template
\* has a sequence and MissingSequence when it has none
C8_AddressErrorPropagates ==
  /\ C8_Rendering
  /\ (op \in {"ctv", "locking_script", "address"} /\ AddressErrors(ctx) # {}) =>
       result \in AddressErrors(ctx)
  /\ (op = "spending_tx" /\ AddressErrors(ctx) # {}) =>
       IF ctx.fields.sequences = <<>> THEN result = MissingSequence
       ELSE result \in AddressErrors(ctx)

\* the address that does not fit is in a nested template, under a Tree that
\* is not the first output
C8_Witness ==
  /\ op = "spending_tx"
  /\ OwnAddressErrors(ctx) = {}
  /\ Len(ctx.fields.outputs) = 3
  /\ ~FirstIsTree(ctx)
  /\ OwnAddressErrors(ctx.fields.outputs[3].tree) # {}
  /\ result \in AddressErrors(ctx)

(***************************************************************************)
(* C9  In the preimage of the hash ctv() returns, the input count is       *)
(* len(sequences) and the output count is len(outputs).                    *)
(***************************************************************************)
C9_Counts ==
  (op = "ctv" /\ result.ok) =>
    LET pre == Preimage(result.val) IN
    /\ Field(pre, 8, 4) = LE(Len(ctx.fields.sequences), 4)
    /\ Field(pre, 44, 4) = LE(Len(ctx.fields.outputs), 4)
    /\ ByteLen(pre) = 84

\* the counts of a template with no sequences and three outputs
C9_Witness ==
  /\ op = "ctv"
  /\ result.ok
  /\ ctx.fields.sequences = <<>>
  /\ Len(ctx.fields.outputs) = 3

(***************************************************************************)
(* C10  spending_tx follows only the first output: a Tree at another       *)
(* position is rendered as an output of the transaction and adds no        *)
(* transaction, so a template whose first output is no Tree gives one      *)
(* transaction.                                                            *)
(***************************************************************************)
C10_OnlyFirstOutput ==
  (op = "spending_tx" /\ result.ok) =>
    /\ Len(result.val) = Len(FirstPath(ctx))
    /\ ~FirstIsTree(ctx) => Len(result.val) = 1
    /\ Len(result.val[1].output) = Len(ctx.fields.outputs)
    /\ \A i \in DOMAIN ctx.fields.outputs :
         ctx.fields.outputs[i].kind = "Tree" =>
           result.val[1].output[i] =
             [value |-> ctx.fields.outputs[i].amount,
              script_pubkey |->
                ScriptPubkey(Context_address(ctx.fields.outputs[i].tree).val)]

C10_Witness ==
  /\ op = "spending_tx"
  /\ result.ok
  /\ ~FirstIsTree(ctx)
  /\ Cardinality({i \in DOMAIN ctx.fields.outputs : ctx.fields.outputs[i].kind = "Tree"}) = 2
  /\ Len(result.val) = 1

(***************************************************************************)
(* C11  In a chain returned by spending_tx every transaction after the     *)
(* first unlocks what its parent paid: output 0 of the parent pays to the  *)
(* script of address() of the nested template, the only input of the child *)
(* has an empty scriptSig and a witness whose first item is that           *)
(* template's locking_script(), one item for Segwit and two for Taproot,   *)
(* the second being the control block.  The parent's script is then the    *)
(* version-0 program of the SHA-256 of the witness script (Segwit), or the *)
(* version-1 program of the internal key of the control block tweaked by   *)
(* the leaf hash of the witness script (Taproot).                          *)
(***************************************************************************)
C11_ChildUnlocksParent ==
  (op = "spending_tx" /\ result.ok) =>
    LET path == FirstPath(ctx) IN
    \A k \in 2..Len(result.val) :
      LET parent == result.val[k - 1]
          child == result.val[k]
          nested == path[k]
          paid == parent.output[1].script_pubkey
          witness == child.input[1].witness
      IN /\ Len(child.input) = 1
         /\ child.input[1].script_sig = <<>>
         /\ paid = ScriptPubkey(Context_address(nested).val)
         /\ Len(witness) = IF nested.tx_type.kind = "Segwit" THEN 1 ELSE 2
         /\ witness[1] = Context_locking_script(nested).val
         /\ nested.tx_type.kind = "Segwit" =>
              paid = <<U8(OP_0), U8(32)>> \o sha256(witness[1])
         /\ nested.tx_type.kind = "Taproot" =>
              /\ witness[2] = ControlBlock(
                                Context_taproot_spend_info(
                                  nested, nested.tx_type.internal_key).val,
                                witness[1]).val
              /\ witness[2][2] = nested.tx_type.internal_key
              /\ paid = <<U8(OP_PUSHNUM_1), U8(32),
                          <<"taptweak", witness[2][2],
                            <<"tapleaf", TAPROOT_LEAF_TAPSCRIPT, witness[1]>>>>>>

\* a chain of two transactions whose second spends a Taproot template
C11_Witness ==
  /\ op = "spending_tx"
  /\ result.ok
  /\ Len(result.val) = 2
  /\ FirstPath(ctx)[2].tx_type.kind = "Taproot"
  /\ Len(result.val[2].input[1].witness) = 2

(***************************************************************************)
(* Changing one template nested in a tree.                                 *)
(***************************************************************************)
TreeIdx(c) == {j \in DOMAIN c.fields.outputs : c.fields.outputs[j].kind = "Tree"}

\* the templates differing from t in its network only
NetworkChanges(t) == {[t EXCEPT !.network = n] : n \in Networks} \ {t}

\* the output lists differing from outs in one output of their own: one
\* amount, payload or address changed, one output added or removed
OutputChanges(outs) ==
  {[outs EXCEPT ![i].amount = @ + 1] :
     i \in {j \in DOMAIN outs : outs[j].kind # "Data"}}
  \cup {[outs EXCEPT ![i].data = @ \o <<U8(33)>>] :
          i \in {j \in DOMAIN outs : outs[j].kind = "Data"}}
  \cup {[outs EXCEPT ![i].address = P2wpkh("z", @.network)] :
          i \in {j \in DOMAIN outs : outs[j].kind = "Address"}}
  \cup {Append(outs, SomeData)}
  \cup (IF outs = <<>> THEN {} ELSE {Tail(outs)})

\* the templates differing from t in one committed field only
CommittedChanges(t) ==
  {[t EXCEPT !.fields.version = @ + 1],
   [t EXCEPT !.fields.locktime = @ + 1],
   [t EXCEPT !.fields.input_idx = @ + 1],
   [t EXCEPT !.fields.sequences = Append(@, SEQUENCE_ZERO)],
   [t EXCEPT !.tx_type = IF @.kind = "Segwit" THEN Taproot(KeyA) ELSE Segwit]}
  \cup (IF t.fields.sequences = <<>> THEN {}
        ELSE {[t EXCEPT !.fields.sequences = Tail(@)],
              [t EXCEPT !.fields.sequences[1] =
                 IF @ = SEQUENCE_MAX THEN SEQUENCE_ZERO ELSE SEQUENCE_MAX]})
  \cup {[t EXCEPT !.fields.outputs = outs] : outs \in OutputChanges(t.fields.outputs)}

Changes(t, kind) == IF kind = "network" THEN NetworkChanges(t) ELSE CommittedChanges(t)

\* the templates obtained from c by one change of that kind to one
\* template nested in it, at any depth and under any Tree output
RECURSIVE NestedVariants(_, _)
NestedVariants(c, kind) ==
  UNION {{[c EXCEPT !.fields.outputs[i].tree = v] :
            v \in Changes(c.fields.outputs[i].tree, kind)
                  \cup NestedVariants(c.fields.outputs[i].tree, kind)} :
         i \in TreeIdx(c)}

\* a template holding a template that holds a template
Deep(c) == \E i \in TreeIdx(c) : TreeIdx(c.fields.outputs[i].tree) # {}

\* a template that is the spec's example apart from its outputs
ExampleRoot(c) == c = Base(c.fields.outputs)

\* the template itself and, unless it is deep already, a template
\* holding it one level deeper
Roots(c) ==
  {c} \cup (IF Deep(c) THEN {} ELSE {Base(<<SomeData, TreeOutput(c, 5000)>>)})

\* the roots whose nested templates are changed in their committed fields:
\* every root that is not deep, and the deep ones shaped as the example
CommittedScope(c) == ~Deep(c) \/ ExampleRoot(c)

(***************************************************************************)
(* C12  The root commitment binds the whole tree.  As claimed: a change of *)
(* one committed field (version, locktime, sequences, outputs, input_idx,  *)
(* tx_type) of a template nested at any depth changes the root ctv() hash, *)
(* a change of the network of a nested template leaves the root hash       *)
(* equal, and so does the network argument when a Tree output is rendered. *)
(* This is C12_NestedNetworkFree, which fails: the nested template checks  *)
(* its Address outputs against its own network, so a network change can    *)
(* leave the root with an address error and no hash.  What holds: the      *)
(* committed part and the network argument part as claimed; after a        *)
(* nested network change the root ctv() succeeds exactly when no Address   *)
(* output in the tree is invalid for its template, then with the equal     *)
(* hash, and fails otherwise with such an output's address error.  The     *)
(* roots are the template and, where it is not deep, a template holding    *)
(* it; the committed changes are tried under the roots of CommittedScope.  *)
(***************************************************************************)
\* C12 as claimed
C12_NestedNetworkFree ==
  /\ op = "ctv" =>
       \A r \in Roots(ctx) :
         LET root == Context_ctv(r) IN
         root.ok =>
           /\ CommittedScope(ctx) =>
                \A v \in NestedVariants(r, "committed") : Context_ctv(v) # root
           /\ \A v \in NestedVariants(r, "network") : Context_ctv(v) = root
  /\ (op = "as_txout" /\ ctx.fields.outputs[args[1]].kind = "Tree") =>
       \A n \in Networks : Output_as_txout(ctx.fields.outputs[args[1]], n) = result

C12_RootBindsTree ==
  /\ op = "ctv" =>
       \A r \in Roots(ctx) :
         LET root == Context_ctv(r) IN
         root.ok =>
           /\ CommittedScope(ctx) =>
                \A v \in NestedVariants(r, "committed") : Context_ctv(v) # root
           /\ \A v \in NestedVariants(r, "network") :
                LET other == Context_ctv(v) IN
                /\ other.ok <=> AddressErrors(v) = {}
                /\ other.ok => other = root
                /\ ~other.ok => other \in AddressErrors(v)
  /\ (op = "as_txout" /\ ctx.fields.outputs[args[1]].kind = "Tree") =>
       \A n \in Networks : Output_as_txout(ctx.fields.outputs[args[1]], n) = result

\* a root hash that a nested template with an Address output keeps on
\* one other network and loses on another
C12_Witness ==
  /\ op = "ctv"
  /\ result.ok
  /\ TreeIdx(ctx) # {}
  /\ \E v \in NestedVariants(ctx, "network") : Context_ctv(v) = result
  /\ \E v \in NestedVariants(ctx, "network") : ~Context_ctv(v).ok
  /\ \E v \in NestedVariants(ctx, "committed") : Context_ctv(v).ok

====
